---- MODULE Spec2Model ----
(***************************************************************************)
(* plaintextref.py: in-text references are converted to sequentially       *)
(* numbered footnotes, collected in an appendix.                           *)
(*                                                                         *)
(* Text is a sequence of characters; a character is a one-character string *)
(* (the two curly quotation marks, which the bracket pattern names, are    *)
(* the atoms LDQUO and RDQUO).  A file is a sequence of characters, a line *)
(* is a sequence of characters that ends with "\n" (the last line of a     *)
(* file may lack it).                                                      *)
(***************************************************************************)
EXTENDS Integers, Sequences, FiniteSets, TLC

\* ------------------------------------------------------------------------
\* Characters and character classes of Python's re module.
\* ------------------------------------------------------------------------
NL == "\n"
LDQUO == "<ldquo>"
RDQUO == "<rdquo>"
DQUOTE == "\""

Letters ==
  {"a","b","c","d","e","f","g","h","i","j","k","l","m","n","o","p","q","r","s",
   "t","u","v","w","x","y","z",
   "A","B","C","D","E","F","G","H","I","J","K","L","M","N","O","P","Q","R","S",
   "T","U","V","W","X","Y","Z"}

DigitChars == <<"0","1","2","3","4","5","6","7","8","9">>

\* \d
Digits == {DigitChars[i] : i \in 1..10}

\* \w
WordChars == Letters \cup Digits \cup {"_"}

\* [ ]
Spaces == {" "}

\* s[i], or "" past the end of s
At(s, i) == IF i >= 1 /\ i <= Len(s) THEN s[i] ELSE ""

\* greedy C*: the first position at or after i whose character is not in C
RECURSIVE SkipIn(_, _, _)
SkipIn(s, i, C) ==
  IF i > Len(s) \/ s[i] \notin C THEN i ELSE SkipIn(s, i + 1, C)

\* greedy [^C]*: the first position at or after i whose character is in C
RECURSIVE SkipNotIn(_, _, _)
SkipNotIn(s, i, C) ==
  IF i > Len(s) \/ s[i] \in C THEN i ELSE SkipNotIn(s, i + 1, C)

\* concatenation of a sequence of sequences (''.join)
RECURSIVE Join(_)
Join(ss) == IF ss = <<>> THEN <<>> ELSE Head(ss) \o Join(Tail(ss))

\* str(n) for a natural number n
RECURSIVE Str(_)
Str(n) == IF n < 10 THEN <<DigitChars[n + 1]>>
          ELSE Str(n \div 10) \o <<DigitChars[(n % 10) + 1]>>

\* ------------------------------------------------------------------------
\* urlparse (urllib.parse) as far as inspect_brackets reads its result:
\* the scheme, the network location, and the ValueError it raises.
\* ------------------------------------------------------------------------
SchemeChars == Letters \cup Digits \cup {"+", "-", "."}

\* url.find(c, start) over 1-based positions; 0 when absent
RECURSIVE Find(_, _, _)
Find(s, C, i) ==
  IF i > Len(s) THEN 0 ELSE IF s[i] \in C THEN i ELSE Find(s, C, i + 1)

urlparse(content) ==
  LET url0 == SubSeq(content, SkipIn(content, 1, {" ", NL}), Len(content))
      i == Find(url0, {":"}, 1)
      hasScheme == /\ i > 1
                   /\ url0[1] \in Letters
                   /\ \A k \in 1..(i - 1) : url0[k] \in SchemeChars
      scheme == IF hasScheme THEN SubSeq(url0, 1, i - 1) ELSE <<>>
      url == IF hasScheme THEN SubSeq(url0, i + 1, Len(url0)) ELSE url0
      slashes == Len(url) >= 2 /\ url[1] = "/" /\ url[2] = "/"
      delim == LET d == Find(url, {"/", "?", "#"}, 3)
               IN IF d = 0 THEN Len(url) + 1 ELSE d
      netloc == IF slashes THEN SubSeq(url, 3, delim - 1) ELSE <<>>
      hasOpen == \E k \in 1..Len(netloc) : netloc[k] = "["
      hasClose == \E k \in 1..Len(netloc) : netloc[k] = "]"
  IN [scheme |-> scheme, netloc |-> netloc,
      ValueError |-> (hasOpen /\ ~hasClose) \/ (hasClose /\ ~hasOpen)]

\* ------------------------------------------------------------------------
\* The bracket pattern of the classification loop: four alternatives, tried
\* in this order at each position, leftmost position first.
\* ------------------------------------------------------------------------
NoMatch == [kind |-> "none", start |-> 0, end |-> 0,
            content |-> <<>>, word |-> <<>>]

\* MatchRd without the leading [ ]*: the span begins at the bracket
MatchRdKeepSpace(s, i) ==
  LET k == SkipNotIn(s, i + 1, {"(", ")"})
      e == SkipIn(s, k + 1, WordChars)
  IN IF At(s, i) = "(" /\ At(s, k) = ")"
     THEN [kind |-> "rd", start |-> i, end |-> e,
           content |-> SubSeq(s, i + 1, k - 1), word |-> SubSeq(s, k + 1, e - 1)]
     ELSE NoMatch

\* ([ ]*[\(])(?P<rd>[^\(\)]*)([\)])(?P<rd_word>\w*)
MatchRd(s, i) ==
  LET j == SkipIn(s, i, Spaces)
      k == SkipNotIn(s, j + 1, {"(", ")"})
      e == SkipIn(s, k + 1, WordChars)
  IN IF At(s, j) = "(" /\ At(s, k) = ")"
     THEN [kind |-> "rd", start |-> i, end |-> e,
           content |-> SubSeq(s, j + 1, k - 1), word |-> SubSeq(s, k + 1, e - 1)]
     ELSE NoMatch

\* (?P<sq_qu_open>([“]|[\"]))(?P<sq_qu_quotes>([^\"“”[]*)([\[])([^\"“”\]]+)
\*   ([\]])([^“”\"]*))(?P<sq_qu_close>([”]|[\"]))
MatchSqQu(s, i) ==
  LET j == SkipNotIn(s, i + 1, {DQUOTE, LDQUO, RDQUO, "["})
      k == SkipNotIn(s, j + 1, {DQUOTE, LDQUO, RDQUO, "]"})
      m == SkipNotIn(s, k + 1, {DQUOTE, LDQUO, RDQUO})
  IN IF /\ At(s, i) \in {LDQUO, DQUOTE}
        /\ At(s, j) = "["
        /\ k > j + 1
        /\ At(s, k) = "]"
        /\ At(s, m) \in {RDQUO, DQUOTE}
     THEN [kind |-> "sq_qu", start |-> i, end |-> m + 1,
           content |-> SubSeq(s, i + 1, m - 1), word |-> <<>>]
     ELSE NoMatch

\* ([ ]*[\[])(?P<sq_d>\d+)([\]])(?P<sq_d_word>\w*)
MatchSqD(s, i) ==
  LET j == SkipIn(s, i, Spaces)
      k == SkipIn(s, j + 1, Digits)
      e == SkipIn(s, k + 1, WordChars)
  IN IF At(s, j) = "[" /\ k > j + 1 /\ At(s, k) = "]"
     THEN [kind |-> "sq_d", start |-> i, end |-> e,
           content |-> SubSeq(s, j + 1, k - 1), word |-> SubSeq(s, k + 1, e - 1)]
     ELSE NoMatch

\* ([ ]*[\[])(?P<sq>[^\[\]]*)([\]])(?P<sq_word>\w*)
MatchSq(s, i) ==
  LET j == SkipIn(s, i, Spaces)
      k == SkipNotIn(s, j + 1, {"[", "]"})
      e == SkipIn(s, k + 1, WordChars)
  IN IF At(s, j) = "[" /\ At(s, k) = "]"
     THEN [kind |-> "sq", start |-> i, end |-> e,
           content |-> SubSeq(s, j + 1, k - 1), word |-> SubSeq(s, k + 1, e - 1)]
     ELSE NoMatch

\* the alternation at one position
MatchAt(s, i) ==
  LET rd == MatchRd(s, i)
      sq_qu == MatchSqQu(s, i)
      sq_d == MatchSqD(s, i)
  IN IF rd.kind # "none" THEN rd
     ELSE IF sq_qu.kind # "none" THEN sq_qu
     ELSE IF sq_d.kind # "none" THEN sq_d
     ELSE MatchSq(s, i)

\* the next match re.sub finds at or after position p
RECURSIVE FindMatch(_, _)
FindMatch(s, p) ==
  IF p > Len(s) THEN NoMatch
  ELSE LET m == MatchAt(s, p)
       IN IF m.kind # "none" THEN m ELSE FindMatch(s, p + 1)

\* matchobj.group(0)
fullref(s, m) == SubSeq(s, m.start, m.end - 1)

\* ------------------------------------------------------------------------
\* Ordered dictionaries (references: content -> number; oldreferences:
\* content -> old number, a string of digits), as sequences of items in
\* insertion order.
\* ------------------------------------------------------------------------
Min(S) == CHOOSE x \in S : \A y \in S : x <= y

\* key in d
Has(d, key) == \E i \in 1..Len(d) : d[i].ref = key

\* Get that answers with the number given last
GetLast(d, key) == d[Len(d)].no

\* d[key]
Get(d, key) == d[CHOOSE i \in 1..Len(d) : d[i].ref = key].no

\* d[key] = val: an existing key keeps its place
Put(d, key, val) ==
  IF Has(d, key)
  THEN [i \in 1..Len(d) |->
          IF d[i].ref = key THEN [ref |-> key, no |-> val] ELSE d[i]]
  ELSE Append(d, [ref |-> key, no |-> val])

\* ------------------------------------------------------------------------
\* write_appendix
\* ------------------------------------------------------------------------
Sentinel == <<"_", "_", "_", NL>>
SignatureLine == <<"-", "-", NL>>

\* "[{}] {}\n".format(no, ref)
AppendixLine(no, ref) == <<"[">> \o Str(no) \o <<"]", " ">> \o ref \o <<NL>>

write_appendix(out, refs) ==
  out \o Sentinel
      \o Join([i \in 1..Len(refs) |-> AppendixLine(refs[i].no, refs[i].ref)])

\* ------------------------------------------------------------------------
\* inspect_brackets: the callback re.sub calls for each match m in line s.
\* The result carries the returned text, the globals it assigns, the
\* status message it prints and whether urlparse raised.
\* ------------------------------------------------------------------------
sic == <<"s", "i", "c">>
sicBang == <<"s", "i", "c", "!">>

\* OldLookup that compares the digits with the entry's content
OldLookupByRef(oldrefs, digits) ==
  LET hits == {i \in 1..Len(oldrefs) : oldrefs[i].ref = digits}
  IN IF hits = {} THEN [found |-> FALSE, ref |-> <<>>]
     ELSE [found |-> TRUE, ref |-> oldrefs[Min(hits)].ref]

\* for ref, no in oldreferences.items(): if brkts_sq_digit == no: ... break
OldLookup(oldrefs, digits) ==
  LET hits == {i \in 1..Len(oldrefs) : oldrefs[i].no = digits}
  IN IF hits = {} THEN [found |-> FALSE, ref |-> <<>>]
     ELSE [found |-> TRUE, ref |-> oldrefs[Min(hits)].ref]

\* "[" + str(refno) + "]" + brkts_append
Marker(refno, brkts_append) == <<"[">> \o Str(refno) \o <<"]">> \o brkts_append

inspect_brackets(s, m, refs, cnt, dups, oldrefs) ==
  LET brkts_append ==
        IF m.kind \in {"rd", "sq", "sq_d"} /\ m.word # <<>>
        THEN <<" ">> \o m.word ELSE <<>>
      old == OldLookup(oldrefs, m.content)
      sq_is_none == ~(m.kind = "sq" \/ (m.kind = "sq_d" /\ old.found))
      brkts_sq_content == IF m.kind = "sq_d" THEN old.ref ELSE m.content
      keep == [ret |-> fullref(s, m), references |-> refs, counter |-> cnt,
               duplicate_ref |-> dups, note |-> <<>>, raised |-> FALSE]
  IN IF m.kind = "rd" THEN
       LET url == urlparse(m.content)
       IN IF url.ValueError THEN [keep EXCEPT !.raised = TRUE]
          ELSE IF url.scheme # <<>> /\ url.netloc # <<>> THEN
            IF Has(refs, m.content)
            THEN [keep EXCEPT !.ret = Marker(Get(refs, m.content), brkts_append),
                              !.note = <<m.content>>]
            ELSE [keep EXCEPT !.ret = Marker(cnt + 1, brkts_append),
                              !.counter = cnt + 1,
                              !.references = Put(refs, m.content, cnt + 1)]
          ELSE keep
     ELSE IF m.kind = "sq_qu" THEN
       [keep EXCEPT !.ret = <<DQUOTE>> \o m.content \o <<DQUOTE>>]
     ELSE IF ~sq_is_none THEN
       IF brkts_sq_content = sic /\ brkts_sq_content = sicBang THEN keep
       ELSE IF Has(refs, brkts_sq_content) THEN
         IF ~(\E i \in 1..Len(dups) : dups[i] = brkts_sq_content)
            /\ m.kind # "sq_d"
         THEN [keep EXCEPT
                 !.ret = Marker(Get(refs, brkts_sq_content), brkts_append),
                 !.duplicate_ref = Append(dups, brkts_sq_content),
                 !.note = <<brkts_sq_content>>]
         ELSE [keep EXCEPT
                 !.ret = Marker(Get(refs, brkts_sq_content), brkts_append)]
       ELSE [keep EXCEPT !.ret = Marker(cnt + 1, brkts_append),
                         !.counter = cnt + 1,
                         !.references = Put(refs, brkts_sq_content, cnt + 1)]
     ELSE IF m.kind = "sq_d" THEN [keep EXCEPT !.ret = <<>>]
     ELSE keep

\* ------------------------------------------------------------------------
\* old_refs: the pattern \[(\d+)\] *(.+)\n* and its callback parse_oldrefs.
\* ------------------------------------------------------------------------
NoOld == [found |-> FALSE, start |-> 0, end |-> 0, no |-> <<>>, ref |-> <<>>]

\* the pattern at position i: " *" gives back its last space when nothing
\* is left for ".+"
MatchOld(s, i) ==
  LET k == SkipIn(s, i + 1, Digits)
      j == SkipIn(s, k + 1, Spaces)
      e == SkipNotIn(s, j, {NL})
  IN IF At(s, i) = "[" /\ k > i + 1 /\ At(s, k) = "]" /\ (e > j \/ j > k + 1)
     THEN [found |-> TRUE, start |-> i, end |-> SkipIn(s, e, {NL}),
           no |-> SubSeq(s, i + 1, k - 1),
           ref |-> IF e > j THEN SubSeq(s, j, e - 1) ELSE SubSeq(s, j - 1, j - 1)]
     ELSE NoOld

RECURSIVE FindOld(_, _)
FindOld(s, p) ==
  IF p > Len(s) THEN NoOld
  ELSE LET m == MatchOld(s, p)
       IN IF m.found THEN m ELSE FindOld(s, p + 1)

\* parse_oldrefs: oldreferences[ref] = no when ref is not empty
parse_oldrefs(m, oldrefs) ==
  IF m.ref # <<>> THEN Put(oldrefs, m.ref, m.no) ELSE oldrefs

\* re.sub(pattern, parse_oldrefs, line) from position p on: the text left
\* over and the table after every match of the line
RECURSIVE SubOld(_, _, _)
SubOld(s, p, oldrefs) ==
  LET m == FindOld(s, p)
  IN IF ~m.found
     THEN [the_refs |-> SubSeq(s, p, Len(s)), oldreferences |-> oldrefs]
     ELSE LET rest == SubOld(s, m.end, parse_oldrefs(m, oldrefs))
          IN [the_refs |-> SubSeq(s, p, m.start - 1) \o rest.the_refs,
              oldreferences |-> rest.oldreferences]

\* the lines of a file, each with its terminator
RECURSIVE SplitLines(_)
SplitLines(f) ==
  IF f = <<>> THEN <<>>
  ELSE LET n == Find(f, {NL}, 1)
       IN IF n = 0 THEN <<f>>
          ELSE <<SubSeq(f, 1, n)>> \o SplitLines(SubSeq(f, n + 1, Len(f)))

\* ------------------------------------------------------------------------
\* HTMLClean.  HTMLParser.feed calls the handlers once per piece of the
\* document; a document is the sequence of these calls: a start tag with
\* its attributes, an end tag, or text.
\* ------------------------------------------------------------------------
StartTag(tag, attrs) == [type |-> "starttag", tag |-> tag, attrs |-> attrs, data |-> <<>>]
EndTag(tag) == [type |-> "endtag", tag |-> tag, attrs |-> <<>>, data |-> <<>>]
Data(data) == [type |-> "data", tag |-> "", attrs |-> <<>>, data |-> data]

Whitespace == {" ", "\t", NL, "\r", "\f"}
HSpace == {" ", "\t"}

\* str.lstrip, str.rstrip, str.strip
lstrip(s) == SubSeq(s, SkipIn(s, 1, Whitespace), Len(s))
RECURSIVE rstrip(_)
rstrip(s) ==
  IF s # <<>> /\ s[Len(s)] \in Whitespace THEN rstrip(SubSeq(s, 1, Len(s) - 1))
  ELSE s
strip(s) == rstrip(lstrip(s))

\* handle_starttag: the pieces and URLs it appends
RECURSIVE HrefValues(_)
HrefValues(attrs) ==
  IF attrs = <<>> THEN <<>>
  ELSE (IF Head(attrs).name = "href" THEN <<strip(Head(attrs).value)>> ELSE <<>>)
       \o HrefValues(Tail(attrs))

handle_starttag(res, us, tag, attrs) ==
  LET r1 == IF tag = "br" THEN Append(res, <<NL>>) ELSE res
  IN IF tag = "a"
     THEN [result |-> r1 \o HrefValues(attrs), urls |-> us \o HrefValues(attrs)]
     ELSE [result |-> r1, urls |-> us]

\* handle_data
handle_data(res, data) == Append(res, data)

\* handle_endtag, the loop that pops pieces until it meets last_url:
\* the pieces left, the pieces popped (latest first) and count_data
RECURSIVE PopDescriptions(_, _, _, _)
PopDescriptions(res, count_data, last_url, descriptions) ==
  IF count_data >= 2
  THEN LET last_data == res[Len(res)]
           rest == SubSeq(res, 1, Len(res) - 1)
       IN IF last_data = last_url
          THEN [result |-> rest, descriptions |-> descriptions]
          ELSE PopDescriptions(rest, count_data - 1, last_url,
                               Append(descriptions, last_data))
  ELSE [result |-> res, descriptions |-> descriptions]

Reverse(s) == [i \in 1..Len(s) |-> s[Len(s) + 1 - i]]

handle_endtag(res, us, tag) ==
  LET count_data == Len(res)
      r1 == IF tag \in {"div", "p"} THEN Append(res, <<NL, NL>>) ELSE res
      r2 == IF tag = "a" /\ count_data >= 2 /\ Len(us) >= 1
            THEN LET last_url == us[Len(us)]
                     popped == PopDescriptions(r1, count_data, last_url, <<>>)
                     descriptions_collected == Join(Reverse(popped.descriptions))
                     url == urlparse(last_url)
                 IN IF popped.descriptions = <<>> THEN popped.result
                    ELSE IF url.scheme # <<>> /\ url.netloc # <<>>
                    THEN popped.result \o
                           <<descriptions_collected,
                             <<" ", "(">> \o last_url \o <<")">> >>
                    ELSE Append(popped.result, descriptions_collected)
            ELSE r1
  IN IF tag \in {"script", "style"} /\ Len(r2) >= 1
     THEN SubSeq(r2, 1, Len(r2) - 1) ELSE r2

\* concatenate: the seven substitutions, each re.sub from position p on
\* (\w)[ \t]*\n[ \t]*(\w)  ->  \1 \2
RECURSIVE SubWordWrap(_, _)
SubWordWrap(s, p) ==
  IF p > Len(s) THEN <<>>
  ELSE LET j == SkipIn(s, p + 1, HSpace)
           k == SkipIn(s, j + 1, HSpace)
       IN IF s[p] \in WordChars /\ At(s, j) = NL /\ At(s, k) \in WordChars
          THEN <<s[p], " ", s[k]>> \o SubWordWrap(s, k + 1)
          ELSE <<s[p]>> \o SubWordWrap(s, p + 1)

\* (\S)([ \t]*\n[ \t]+|[ \t]*\n[ \t]+)(\S)  ->  \1 \3
RECURSIVE SubIndentWrap(_, _)
SubIndentWrap(s, p) ==
  IF p > Len(s) THEN <<>>
  ELSE LET j == SkipIn(s, p + 1, HSpace)
           k == SkipIn(s, j + 1, HSpace)
       IN IF /\ s[p] \notin Whitespace
             /\ At(s, j) = NL
             /\ k > j + 1
             /\ k <= Len(s)
             /\ s[k] \notin Whitespace
          THEN <<s[p], " ", s[k]>> \o SubIndentWrap(s, k + 1)
          ELSE <<s[p]>> \o SubIndentWrap(s, p + 1)

\* ([ \t]*\n[ \t]+|[ \t]*\n[ \t]+)  ->  ' '
RECURSIVE SubIndent(_, _)
SubIndent(s, p) ==
  IF p > Len(s) THEN <<>>
  ELSE LET j == SkipIn(s, p, HSpace)
           k == SkipIn(s, j + 1, HSpace)
       IN IF At(s, j) = NL /\ k > j + 1
          THEN <<" ">> \o SubIndent(s, k)
          ELSE <<s[p]>> \o SubIndent(s, p + 1)

\* ([ \t]*\n\n[ \t]+|[ \t]*\n\n[ \t]+)  ->  \n\n
RECURSIVE SubParIndent(_, _)
SubParIndent(s, p) ==
  IF p > Len(s) THEN <<>>
  ELSE LET j == SkipIn(s, p, HSpace)
           k == SkipIn(s, j + 2, HSpace)
       IN IF At(s, j) = NL /\ At(s, j + 1) = NL /\ k > j + 2
          THEN <<NL, NL>> \o SubParIndent(s, k)
          ELSE <<s[p]>> \o SubParIndent(s, p + 1)

\* ([\t ]*\n[\n \t]+)  ->  \n\n
RECURSIVE SubBlank(_, _)
SubBlank(s, p) ==
  IF p > Len(s) THEN <<>>
  ELSE LET j == SkipIn(s, p, HSpace)
           k == SkipIn(s, j + 1, {NL, " ", "\t"})
       IN IF At(s, j) = NL /\ k > j + 1
          THEN <<NL, NL>> \o SubBlank(s, k)
          ELSE <<s[p]>> \o SubBlank(s, p + 1)

\* [ \t]+  ->  ' '
RECURSIVE SubSpaces(_, _)
SubSpaces(s, p) ==
  IF p > Len(s) THEN <<>>
  ELSE IF s[p] \in HSpace THEN <<" ">> \o SubSpaces(s, SkipIn(s, p, HSpace))
  ELSE <<s[p]>> \o SubSpaces(s, p + 1)

\* ([\n]{2,})  ->  \n\n
RECURSIVE SubNewlines(_, _)
SubNewlines(s, p) ==
  IF p > Len(s) THEN <<>>
  ELSE LET k == SkipIn(s, p, {NL})
       IN IF k > p + 1 THEN <<NL, NL>> \o SubNewlines(s, k)
          ELSE <<s[p]>> \o SubNewlines(s, p + 1)

concatenate(res) ==
  LET t0 == rstrip(lstrip(Join(res)))
      t1 == SubWordWrap(t0, 1)
      t2 == SubIndentWrap(t1, 1)
      t3 == SubIndent(t2, 1)
      t4 == SubParIndent(t3, 1)
      t5 == SubBlank(t4, 1)
      t6 == SubSpaces(t5, 1)
  IN SubNewlines(t6, 1)

\* ------------------------------------------------------------------------
\* Input files.  A file is a free sequence of body lines, or one line with
\* numeric markers followed by an old appendix (the sentinel and its
\* entries) and by further lines, or by a line of text and one more entry
\* line.
\* ------------------------------------------------------------------------
MaxBody == 2
MaxOld == 2
MaxTail == 1

SeqsUpTo(S, n) == UNION {[1..k -> S] : k \in 0..n}

\* lines with bracket spans of every kind, and the signature boundary
BodyLines ==
  {<<"S","e","e"," ","t","h","e"," ","d","e","t","a","i","l","s"," ","(","h","t","t","p","s",":","/","/","e","x","a","m","p","l","e",".","c","o","m","/","p","a","g","e",")",".",NL>>,
   <<"a"," ","[","c","]"," ","(","h",":","/","/","e",")","w",NL>>,
   <<"[","d","]"," ","[","c","]","(","h",":","/","/","e",")",NL>>,
   <<"a"," ","[","s","i","c","]"," ","b"," ","[","s","i","c","!","]",NL>>,
   <<" ","(","x",")","w"," ","(","h",":","e",")"," ","(","/","/","e",")",NL>>,
   <<DQUOTE,"q"," ","[","z","]",DQUOTE," ",DQUOTE,"r"," ","(","h",":","/","/","e",")"," ","s",DQUOTE,NL>>,
   <<"(","h",":","/","/","[",")",NL>>,
   <<"x"," ","[","1","]","y",NL>>,
   <<"(","h",":","/","/","e",")"," ","(","h",":","/","/","e",")"," ","[","c","]"," ","(","h",":","/","/","e",")"," ","[","c","]"," ","[","c","]",NL>>,
   <<"-","-",NL>>}

\* lines with numeric footnote markers
HeadLines ==
  {<<"x"," ","[","1","]","[","2","]"," ","[","3","]","y",NL>>,
   <<"[","c","]"," ","[","2","]",NL>>,
   <<"t"," ","[","2","]"," ","[","1","]",NL>>}

\* lines of an old appendix
OldLines ==
  {<<"[","1","]"," ","c",NL>>,
   <<"[","2","]"," ","h",":","/","/","e",NL>>,
   <<"[","1","]"," ","d",NL>>}

\* lines that may follow an old appendix (the last without terminator)
TailLines ==
  {<<"t",NL>>,
   <<"-","-",NL>>,
   <<"[","3","]"," ","d",NL>>,
   <<"-","-">>}

Files ==
  {Join(b) : b \in SeqsUpTo(BodyLines, MaxBody)}
  \cup {h \o Sentinel \o Join(o) \o Join(t) :
          h \in HeadLines, o \in SeqsUpTo(OldLines, MaxOld),
          t \in SeqsUpTo(TailLines, MaxTail)}
  \cup {h \o Sentinel \o Join(o) \o <<"t", NL>> \o e :
          h \in HeadLines, o \in SeqsUpTo(OldLines, MaxOld), e \in OldLines}

\* HTML documents: sequences of fragments, each a few handler calls
MaxFragments == 2

Fragments ==
  {<<Data(<<"S","e","e"," ","[","c","]",NL," "," ","x"," ">>)>>,
   <<StartTag("a", <<[name |-> "href", value |-> <<" ","h",":","/","/","e"," ">>]>>), Data(<<"t">>),
     EndTag("a")>>,
   <<StartTag("a", <<[name |-> "href", value |-> <<"e">>]>>), Data(<<"u">>),
     EndTag("a")>>,
   <<StartTag("p", <<>>), Data(<<"p"," ","(","h",":","/","/","e",")"," ","[","c","]">>), EndTag("p")>>,
   <<StartTag("br", <<>>), Data(<<" ","-","-",NL>>)>>,
   <<StartTag("script", <<>>), Data(<<"s">>), EndTag("script")>>}

HtmlFiles == {Join(f) : f \in SeqsUpTo(Fragments, MaxFragments)}

TextInputs == {[ext |-> "txt", noref |-> n, file |-> f] : n \in BOOLEAN, f \in Files}
HtmlInputs == {[ext |-> "html", noref |-> n, file |-> f] : n \in BOOLEAN, f \in HtmlFiles}

\* ------------------------------------------------------------------------
\* State
\* ------------------------------------------------------------------------
VARIABLES
  ext,              \* the extension of the input file: txt or html
  noref,            \* args.noref
  file,             \* the contents of the input file
  fed,              \* HTMLParser.feed: handler calls made
  result, urls,     \* HTMLClean: self.result, self.urls
  run,              \* 1 for the run on the input, 2 for the run on its output
  pc,               \* start, old, loop, sub, done, crashed
  source,           \* the lines the two passes iterate over
  fout,             \* the contents of the output file
  references, oldreferences, appendix_find, appendix_start, appendix_lines,
  duplicate_ref, counter, signature,
  linecount,        \* old_refs: lines read
  countlines,       \* classification loop: lines read
  line,             \* classification loop: the current line
  pos,              \* re.sub: where the search for the next match starts
  line_out,         \* re.sub: the result built so far
  matchobj,         \* the match last handed to inspect_brackets
  ret,              \* what inspect_brackets returned for it
  notes             \* the contents named in "Note: multiple occurrence" messages

globals == <<references, oldreferences, appendix_find, appendix_start,
             appendix_lines, duplicate_ref, counter, signature>>
table == <<references, counter, duplicate_ref, notes>>
appendix == <<oldreferences, appendix_find, appendix_start, appendix_lines>>
subst == <<pos, line_out, matchobj, ret>>
args == <<ext, noref, file, run>>
parser == <<fed, result, urls>>
vars == <<ext, noref, file, fed, result, urls, run, pc, source, fout, references, oldreferences,
          appendix_find, appendix_start, appendix_lines, duplicate_ref,
          counter, signature, linecount, countlines, line, pos, line_out,
          matchobj, ret, notes>>

\* module level assignments, and the locals before their first assignment
Fresh ==
  /\ references = <<>>
  /\ oldreferences = <<>>
  /\ appendix_find = 0
  /\ appendix_start = 0
  /\ appendix_lines = 0
  /\ duplicate_ref = <<>>
  /\ counter = 0
  /\ signature = 0
  /\ source = <<>>
  /\ fout = <<>>
  /\ linecount = 0
  /\ countlines = 0
  /\ line = <<>>
  /\ pos = 1
  /\ line_out = <<>>
  /\ matchobj = NoMatch
  /\ ret = <<>>
  /\ notes = <<>>
  /\ fed = 0
  /\ result = <<>>
  /\ urls = <<>>

Init ==
  /\ \/ \E in \in TextInputs : ext = in.ext /\ noref = in.noref /\ file = in.file
     \/ \E in \in HtmlInputs : ext = in.ext /\ noref = in.noref /\ file = in.file
  /\ run = 1
  /\ pc = "start"
  /\ Fresh

\* a text file: the output file is created, the source is the input file
Begin ==
  /\ pc = "start"
  /\ ext = "txt"
  /\ source' = SplitLines(file)
  /\ fout' = <<>>
  /\ pc' = "old"
  /\ UNCHANGED <<args, parser, globals, linecount, countlines, line, subst, notes>>

\* an HTML file: html_to_text makes an HTMLClean and feeds it the document
BeginHtml ==
  /\ pc = "start"
  /\ ext = "html"
  /\ pc' = "feed"
  /\ UNCHANGED <<args, parser, source, fout, globals, linecount, countlines,
                 line, subst, notes>>

HandleStartTag ==
  /\ pc = "feed"
  /\ fed < Len(file)
  /\ file[fed + 1].type = "starttag"
  /\ LET h == handle_starttag(result, urls, file[fed + 1].tag, file[fed + 1].attrs)
     IN result' = h.result /\ urls' = h.urls
  /\ fed' = fed + 1
  /\ UNCHANGED <<args, pc, source, fout, globals, linecount, countlines,
                 line, subst, notes>>

HandleData ==
  /\ pc = "feed"
  /\ fed < Len(file)
  /\ file[fed + 1].type = "data"
  /\ result' = handle_data(result, file[fed + 1].data)
  /\ fed' = fed + 1
  /\ UNCHANGED <<args, urls, pc, source, fout, globals, linecount, countlines,
                 line, subst, notes>>

HandleEndTag ==
  /\ pc = "feed"
  /\ fed < Len(file)
  /\ file[fed + 1].type = "endtag"
  /\ result' = handle_endtag(result, urls, file[fed + 1].tag)
  /\ fed' = fed + 1
  /\ UNCHANGED <<args, urls, pc, source, fout, globals, linecount, countlines,
                 line, subst, notes>>

\* html_to_text returns content.concatenate(); the text is written to the
\* output file; with --noref the program exits, otherwise the output file
\* is created anew and the source is the list of lines of the text
Concatenate ==
  /\ pc = "feed"
  /\ fed = Len(file)
  /\ LET html_stripped == concatenate(result)
     IN IF noref
        THEN fout' = html_stripped /\ pc' = "done" /\ source' = source
        ELSE fout' = <<>> /\ pc' = "old" /\ source' = SplitLines(html_stripped)
  /\ UNCHANGED <<args, parser, globals, linecount, countlines, line, subst, notes>>

\* old_refs: one iteration of its loop
OldRefsLine ==
  /\ pc = "old"
  /\ linecount < Len(source)
  /\ LET l == source[linecount + 1]
         found == IF l = Sentinel THEN 1 ELSE appendix_find
         lines == IF l = Sentinel THEN appendix_lines + 1 ELSE appendix_lines
         sub == SubOld(l, 1, oldreferences)
     IN /\ linecount' = linecount + 1
        /\ appendix_find' = found
        /\ appendix_start' = IF l = Sentinel THEN linecount + 1 ELSE appendix_start
        /\ oldreferences' = IF found = 1 THEN sub.oldreferences ELSE oldreferences
        /\ appendix_lines' = IF found = 1 /\ sub.the_refs = <<>>
                             THEN lines + 1 ELSE lines
  /\ UNCHANGED <<args, parser, pc, source, fout, table, signature, countlines, line, subst>>

\* old_refs returns; source.seek(0)
SeekStart ==
  /\ pc = "old"
  /\ linecount = Len(source)
  /\ pc' = "loop"
  /\ UNCHANGED <<args, parser, source, fout, globals, linecount, countlines, line,
                 subst, notes>>

InOldAppendix(n) ==
  /\ appendix_find > 0
  /\ n >= appendix_start
  /\ n <= appendix_start + appendix_lines

\* a line of the old appendix: fout.write('')
SkipLine ==
  /\ pc = "loop"
  /\ countlines < Len(source)
  /\ source[countlines + 1] # SignatureLine
  /\ InOldAppendix(countlines + 1)
  /\ countlines' = countlines + 1
  /\ line' = source[countlines + 1]
  /\ UNCHANGED <<args, parser, pc, source, fout, globals, linecount, subst, notes>>

\* any other line that is not the signature boundary: re.sub starts
SubstituteLine ==
  /\ pc = "loop"
  /\ countlines < Len(source)
  /\ source[countlines + 1] # SignatureLine
  /\ ~InOldAppendix(countlines + 1)
  /\ countlines' = countlines + 1
  /\ line' = source[countlines + 1]
  /\ pos' = 1
  /\ line_out' = <<>>
  /\ pc' = "sub"
  /\ UNCHANGED <<args, parser, source, fout, globals, linecount, matchobj, ret, notes>>

\* re.sub finds a match and calls inspect_brackets with it
InspectBrackets ==
  /\ pc = "sub"
  /\ FindMatch(line, pos).kind # "none"
  /\ LET m == FindMatch(line, pos)
         r == inspect_brackets(line, m, references, counter, duplicate_ref,
                               oldreferences)
     IN /\ matchobj' = m
        /\ IF r.raised
           THEN /\ pc' = "crashed"
                /\ UNCHANGED <<pos, line_out, ret, table>>
           ELSE /\ pc' = "sub"
                /\ ret' = r.ret
                /\ line_out' = line_out \o SubSeq(line, pos, m.start - 1) \o r.ret
                /\ pos' = m.end
                /\ references' = r.references
                /\ counter' = r.counter
                /\ duplicate_ref' = r.duplicate_ref
                /\ notes' = notes \o r.note
  /\ UNCHANGED <<args, parser, source, fout, appendix, signature, linecount,
                 countlines, line>>

\* re.sub finds no further match; fout.write(line_out)
WriteLine ==
  /\ pc = "sub"
  /\ FindMatch(line, pos).kind = "none"
  /\ line_out' = line_out \o SubSeq(line, pos, Len(line))
  /\ pos' = Len(line) + 1
  /\ fout' = fout \o line_out'
  /\ pc' = "loop"
  /\ UNCHANGED <<args, parser, source, globals, linecount, countlines, line,
                 matchobj, ret, notes>>

\* the signature boundary: the appendix is written before it
Signature ==
  /\ pc = "loop"
  /\ countlines < Len(source)
  /\ source[countlines + 1] = SignatureLine
  /\ countlines' = countlines + 1
  /\ line' = source[countlines + 1]
  /\ signature' = 1
  /\ fout' = (IF Len(references) > 0 THEN write_appendix(fout, references)
              ELSE fout) \o <<NL>> \o line'
  /\ UNCHANGED <<args, parser, pc, source, references, appendix, duplicate_ref,
                 counter, linecount, subst, notes>>

\* after the last line: the appendix at the end when no signature was found
Finish ==
  /\ pc = "loop"
  /\ countlines = Len(source)
  /\ fout' = IF signature = 0 /\ Len(references) > 0
             THEN write_appendix(fout \o <<NL, NL>>, references)
             ELSE fout
  /\ pc' = "done"
  /\ UNCHANGED <<args, parser, source, globals, linecount, countlines, line, subst, notes>>

\* the program is run again, on the file it has written
Rerun ==
  /\ pc = "done"
  /\ ext = "txt"
  /\ run = 1
  /\ run' = 2
  /\ file' = fout
  /\ UNCHANGED <<ext, noref, parser>>
  /\ pc' = "start"
  /\ references' = <<>>
  /\ oldreferences' = <<>>
  /\ appendix_find' = 0
  /\ appendix_start' = 0
  /\ appendix_lines' = 0
  /\ duplicate_ref' = <<>>
  /\ counter' = 0
  /\ signature' = 0
  /\ source' = <<>>
  /\ fout' = <<>>
  /\ linecount' = 0
  /\ countlines' = 0
  /\ line' = <<>>
  /\ pos' = 1
  /\ line_out' = <<>>
  /\ matchobj' = NoMatch
  /\ ret' = <<>>
  /\ notes' = <<>>

Next ==
  \/ Begin
  \/ BeginHtml
  \/ HandleStartTag
  \/ HandleData
  \/ HandleEndTag
  \/ Concatenate
  \/ OldRefsLine
  \/ SeekStart
  \/ SkipLine
  \/ SubstituteLine
  \/ InspectBrackets
  \/ WriteLine
  \/ Signature
  \/ Finish
  \/ Rerun

Spec == Init /\ [][Next]_vars

\* ------------------------------------------------------------------------
\* Properties
\* ------------------------------------------------------------------------
\* the match inspect_brackets is about to be called with
NextMatch == FindMatch(line, pos)

\* re.sub is about to call inspect_brackets
InspectEnabled == pc = "sub" /\ NextMatch.kind # "none"

\* urlparse returns a scheme and a network location, both non-empty
IsUrl(c) ==
  LET u == urlparse(c)
  IN ~u.ValueError /\ u.scheme # <<>> /\ u.netloc # <<>>

\* the match is rendered as a footnote marker, for the content RefKey
IsReference(m) ==
  \/ m.kind = "rd" /\ IsUrl(m.content)
  \/ m.kind = "sq"
  \/ m.kind = "sq_d" /\ OldLookup(oldreferences, m.content).found

RefKey(m) ==
  IF m.kind = "sq_d" THEN OldLookup(oldreferences, m.content).ref ELSE m.content

IndexOf(d, key) == CHOOSE i \in 1..Len(d) : d[i].ref = key

\* a word glued to the closing bracket is set off by one space
Glue(m) == IF m.word = <<>> THEN <<>> ELSE <<" ">> \o m.word

\* "[n]" followed by the glued word
Rendered(n, m) == <<"[">> \o Str(n) \o <<"]">> \o Glue(m)

\* the lines of the output file
OutLines == SplitLines(fout)

Count(ss, x) == Cardinality({i \in 1..Len(ss) : ss[i] = x})

\* C1 (state part): the table maps its k distinct contents onto 1..k in
\* the order of insertion, and the counter is k
NumberedInOrder ==
  /\ \A i \in 1..Len(references) : references[i].no = i
  /\ \A i, j \in 1..Len(references) :
       references[i].ref = references[j].ref => i = j
  /\ counter = Len(references)

\* C1 (step part): within a run the table only grows, by one new content
\* numbered k + 1 at the end; a reference whose content is in the table is
\* rendered with the number it has and leaves the table alone; a reference
\* whose content is new is inserted at this, its first, occurrence
NumberingStep ==
  /\ run' = run =>
       \/ references' = references
       \/ /\ Len(references') = Len(references) + 1
          /\ SubSeq(references', 1, Len(references)) = references
          /\ references'[Len(references')].no = Len(references) + 1
          /\ ~Has(references, references'[Len(references')].ref)
  /\ (InspectEnabled /\ IsReference(NextMatch) /\ pc' = "sub") =>
       LET c == RefKey(NextMatch)
       IN IF Has(references, c)
          THEN /\ references' = references
               /\ ret' = Rendered(IndexOf(references, c), NextMatch)
          ELSE /\ references' =
                    Append(references, [ref |-> c, no |-> Len(references) + 1])
               /\ ret' = Rendered(Len(references) + 1, NextMatch)

\* C1: at every point of the classification pass the reference table maps
\* the contents accepted so far one-to-one onto 1..k in the order of their
\* first occurrence; a repeated content is rendered with the number it has,
\* and an assigned number is never changed or given to another content;
\* the numbering is not reset between lines.
C1_Numbering == []NumberedInOrder /\ [][NumberingStep]_vars

\* C1 witness: in the second line or later, three contents are numbered
\* and a repeated content has been rendered
C1_Witness ==
  /\ pc = "sub"
  /\ countlines >= 2
  /\ Len(references) >= 3
  /\ matchobj.kind \in {"rd", "sq"}
  /\ Has(references, matchobj.content)
  /\ Get(references, matchobj.content) < Len(references)
  /\ ret = Rendered(IndexOf(references, matchobj.content), matchobj)

\* C2: after a complete run the output holds exactly one appendix line
\* "[n] content" for every content that was assigned a number n.
C2_AppendixComplete ==
  pc = "done" =>
    \A i \in 1..Len(references) :
      Count(OutLines, AppendixLine(references[i].no, references[i].ref)) = 1

\* C3: a square-bracket span whose content is sic or sic! is reproduced
\* unchanged and leaves the reference table and the counter unchanged.
C3_SicUntouched ==
  [][(InspectEnabled /\ NextMatch.kind = "sq"
        /\ NextMatch.content \in {sic, sicBang})
       => /\ references' = references
          /\ counter' = counter
          /\ ret' = fullref(line, NextMatch)]_vars

\* C4: a digits-only marker [N] whose N is the number of an old reference
\* entry is replaced by [m], m the number the entry's content has or gets
\* in the reference table (the content, not the digits, is the key); when
\* no old entry has the number N the marker is deleted and the table is
\* left alone.
C4_NumericMarker ==
  [][(InspectEnabled /\ NextMatch.kind = "sq_d") =>
       LET N == NextMatch.content
           entries == {i \in 1..Len(oldreferences) : oldreferences[i].no = N}
       IN IF entries # {}
          THEN \E i \in entries :
                 LET c == oldreferences[i].ref
                 IN /\ Has(references', c)
                    /\ ret' = Rendered(IndexOf(references', c), NextMatch)
                    /\ IF Has(references, c)
                       THEN references' = references
                       ELSE references' =
                              Append(references,
                                     [ref |-> c, no |-> Len(references) + 1])
          ELSE /\ ret' = <<>>
               /\ references' = references
               /\ counter' = counter]_vars

\* C4 witness: the marker [2], whose old entry is the first content met in
\* this run, has been rendered as [1]
C4_Witness ==
  /\ pc = "sub"
  /\ matchobj.kind = "sq_d"
  /\ matchobj.content = <<"2">>
  /\ \E i \in 1..Len(oldreferences) : oldreferences[i].no = <<"2">>
  /\ ret = <<"[", "1", "]">>
  /\ Len(references) = 1

\* the lines old_refs counted as the old appendix: a sentinel line, and
\* every line at or after the first sentinel that its pattern consumed
\* whole
CountedLine(n) ==
  \/ source[n] = Sentinel
  \/ /\ \E k \in 1..n : source[k] = Sentinel
     /\ SubOld(source[n], 1, <<>>).the_refs = <<>>

\* the step of the classification loop emits nothing for the line it reads
LineSuppressed ==
  pc = "loop" /\ pc' = "loop" /\ countlines' = countlines + 1 /\ fout' = fout

\* C5: the lines suppressed from the new body are exactly the lines of the
\* old appendix block found by the pre-pass; every line outside the block
\* is emitted.
C5_SuppressExactly ==
  [][(pc = "loop" /\ countlines' = countlines + 1)
       => (LineSuppressed <=> CountedLine(countlines + 1))]_vars

\* every match re.sub finds in s from position p on
RECURSIVE AllMatches(_, _)
AllMatches(s, p) ==
  LET m == FindMatch(s, p)
  IN IF m.kind = "none" THEN <<>> ELSE <<m>> \o AllMatches(s, m.end)

\* t occurs in s
Occurs(t, s) ==
  \E i \in 1..(Len(s) - Len(t) + 1) : SubSeq(s, i, i + Len(t) - 1) = t

\* the content of an appendix line "[n] content\n"
EntryContent(l, n) == SubSeq(l, Len(Str(n)) + 4, Len(l) - 1)

\* the source is a body followed, at its very end, by the appendix
\* ___, [1] c1, ..., [k] ck, the first s - 1 lines being the body
EndsWithAppendix(s) ==
  /\ s \in 1..(Len(source) - 1)
  /\ \A i \in 1..Len(source) : source[i] = Sentinel <=> i = s
  /\ \A i \in 1..(Len(source) - s) :
       /\ Len(source[s + i]) >= Len(Str(i)) + 5
       /\ source[s + i] = AppendixLine(i, EntryContent(source[s + i], i))

\* the body holds each of the markers [1]..[k] and no new reference: no
\* URL in round brackets, no square brackets other than in quotations,
\* and no numeric marker without an appendix entry
OnlyOldMarkers(s) ==
  LET k == Len(source) - s
  IN /\ \A i \in 1..k :
          \E n \in 1..(s - 1) :
            Occurs(<<"[">> \o Str(i) \o <<"]">>, source[n])
     /\ \A n \in 1..(s - 1) :
          LET ms == AllMatches(source[n], 1)
          IN \A j \in 1..Len(ms) :
               \/ ms[j].kind = "rd" /\ ~IsUrl(ms[j].content)
                                    /\ ~urlparse(ms[j].content).ValueError
               \/ ms[j].kind = "sq_qu"
               \/ ms[j].kind = "sq_d"
                    /\ \E i \in 1..k : ms[j].content = Str(i)

\* the body is written as it was read and the appendix has the same
\* entries, in the same order
Regenerated(s) ==
  LET k == Len(source) - s
  IN /\ references =
          [i \in 1..k |-> [ref |-> EntryContent(source[s + i], i), no |-> i]]
     /\ Len(OutLines) >= Len(source)
     /\ SubSeq(OutLines, 1, s - 1) = SubSeq(source, 1, s - 1)
     /\ SubSeq(OutLines, Len(OutLines) - k, Len(OutLines))
          = SubSeq(source, s, Len(source))

\* C6: the run on a document that is the output of the earlier run, whose
\* body holds only the markers [1]..[k] of that run, followed by its
\* appendix, renders every marker as itself and regenerates the appendix
\* [1] c1, ..., [k] ck.
C6_RoundTrip ==
  (run = 2 /\ pc = "done") =>
    \A s \in 1..Len(source) :
      (EndsWithAppendix(s) /\ OnlyOldMarkers(s)) => Regenerated(s)

\* C7: once the signature boundary has been read, the lines after it are
\* written unmodified and change neither the reference table nor the
\* counter; the appendix, if any, is written just before the boundary.
C7_SignaturePassThrough ==
  [][/\ (signature = 1 /\ run' = run) =>
          /\ references' = references
          /\ counter' = counter
          /\ (pc = "sub" /\ pc' = "loop") => line_out' = line
     /\ (pc = "loop" /\ countlines' = countlines + 1
           /\ line' = SignatureLine) =>
          fout' = (IF Len(references) > 0
                   THEN write_appendix(fout, references) ELSE fout)
                  \o <<NL>> \o SignatureLine]_vars

SeeLine == <<"S","e","e"," ","t","h","e"," ","d","e","t","a","i","l","s"," ","(","h","t","t","p","s",":","/","/","e","x","a","m","p","l","e",".","c","o","m","/","p","a","g","e",")",".",NL>>
SeeUrl == <<"h","t","t","p","s",":","/","/","e","x","a","m","p","l","e",".","c","o","m","/","p","a","g","e">>
SeeOutSpaced == <<"S","e","e"," ","t","h","e"," ","d","e","t","a","i","l","s"," ","[","1","]",".",NL>>
SeeOutGlued == <<"S","e","e"," ","t","h","e"," ","d","e","t","a","i","l","s","[","1","]",".",NL>>

\* the first line of the source was SeeLine and re.sub has finished with it
SeeLineDone ==
  pc = "loop" /\ countlines = 1 /\ line = SeeLine /\ pos = Len(line) + 1

\* C8 as claimed: with an empty reference table the line
\* "See the details (https://example.com/page)." becomes
\* "See the details [1]." and the URL gets the number 1.
C8_SpaceKept ==
  SeeLineDone => /\ line_out = SeeOutSpaced
                 /\ references = <<[ref |-> SeeUrl, no |-> 1]>>

\* C8 (step part): a round-bracket span whose content is a URL is replaced
\* by [n]; the span begins with the spaces before the opening bracket,
\* which go with it, and the text before the span is kept
UrlSpanStep ==
  (InspectEnabled /\ NextMatch.kind = "rd" /\ IsUrl(NextMatch.content)) =>
    LET m == NextMatch
    IN /\ Has(references', m.content)
       /\ line_out' = line_out \o SubSeq(line, pos, m.start - 1)
                               \o Rendered(Get(references', m.content), m)
       /\ m.start = pos \/ line[m.start - 1] # " "
       /\ line[m.end - Len(m.word) - 1] = ")"
       /\ pos' = m.end

\* C8 (state part): the scenario, and the appendix of the file that is
\* this one line
SeeScenario ==
  /\ SeeLineDone => /\ line_out = SeeOutGlued
                    /\ references = <<[ref |-> SeeUrl, no |-> 1]>>
  /\ (pc = "done" /\ source = <<SeeLine>>) =>
       fout = SeeOutGlued \o <<NL, NL>> \o Sentinel \o AppendixLine(1, SeeUrl)

\* C8, amended: a round-bracket span whose content is a URL is replaced by
\* [n] together with the spaces directly before its opening bracket, all
\* other text of the line is kept: with an empty reference table the line
\* "See the details (https://example.com/page)." becomes
\* "See the details[1]." and the appendix gets the entry
\* "[1] https://example.com/page".
C8_SpaceRemoved == []SeeScenario /\ [][UrlSpanStep]_vars

\* C8 witness: the scenario's line has been substituted
C8_Witness == SeeLineDone /\ line_out = SeeOutGlued

\* C9: a round-bracket span whose content does not parse as a URL with a
\* non-empty scheme and a non-empty authority is reproduced byte for byte,
\* with its leading spaces and the word glued to it, and leaves the
\* reference table and the counter unchanged.
C9_NonUrlReproduced ==
  [][(InspectEnabled /\ NextMatch.kind = "rd" /\ ~IsUrl(NextMatch.content))
       => /\ pc' = "sub"
          /\ ret' = fullref(line, NextMatch)
          /\ line_out' = line_out \o SubSeq(line, pos, NextMatch.end - 1)
          /\ references' = references
          /\ counter' = counter]_vars

\* C10: with --noref the classifier is never run, whatever the input type:
\* the reference table stays empty, inspect_brackets is never called and
\* no appendix is written.
C10_NorefSkipsExtraction ==
  noref => /\ references = <<>>
           /\ counter = 0
           /\ matchobj = NoMatch
           /\ pc # "sub"

\* the parser is about to handle the end tag of an anchor
\* <a href=U>text</a>: the start tag with its one href and the non-empty
\* description are the two calls before it
AnchorEnds ==
  /\ pc = "feed"
  /\ fed >= 2
  /\ fed < Len(file)
  /\ file[fed + 1] = EndTag("a")
  /\ file[fed].type = "data"
  /\ file[fed].data # <<>>
  /\ file[fed - 1].type = "starttag"
  /\ file[fed - 1].tag = "a"
  /\ Len(HrefValues(file[fed - 1].attrs)) = 1

\* the text an anchor with the URL U and the description text stands for
AnchorText(U, text) ==
  IF IsUrl(U) THEN text \o <<" ", "(">> \o U \o <<")">> ELSE text

\* C11: for every anchor <a href=U>text</a> with a non-empty description,
\* at any position of the document (nothing before it included), the end
\* tag leaves "text (U)" in place of the anchor when U has a scheme and an
\* authority and "text" otherwise: the URL token the start tag pushed is
\* removed, and the pieces emitted before the start tag are kept as they
\* were.
C11_AnchorRewritten ==
  [][AnchorEnds =>
       LET U == HrefValues(file[fed - 1].attrs)[1]
           before == SubSeq(result, 1, Len(result) - 2)
       IN /\ result[Len(result) - 1] = U
          /\ SubSeq(result', 1, Len(before)) = before
          /\ Join(result') = Join(before) \o AnchorText(U, file[fed].data)]_vars

\* the first sentinel line among the first n lines of the source, or 0
FirstSentinel(n) ==
  LET ss == {s \in 1..n : source[s] = Sentinel}
  IN IF ss = {} THEN 0 ELSE Min(ss)

\* the line is of the form "[<number>] <content>": the pattern of old_refs
\* consumes it whole
EntryLine(l) == SubOld(l, 1, <<>>).the_refs = <<>>

\* line n comes directly after the sentinel or after entry lines only, and
\* is an entry line itself
InBlock(n) ==
  LET s == FirstSentinel(n)
  IN s > 0 /\ n > s /\ \A k \in (s + 1)..n : EntryLine(source[k])

\* a line between the sentinel and line n is no entry line
BlockEnded(n) ==
  LET s == FirstSentinel(n)
  IN s > 0 /\ \E k \in (s + 1)..(n - 1) : ~EntryLine(source[k])

\* C12: in the pre-pass the old appendix block is the sentinel line and the
\* run of entry lines directly after it: each of these is parsed into an
\* old reference entry and counted; the first line after the sentinel that
\* is no entry line ends the block, and no later line, even an entry line,
\* is parsed or counted.
C12_BlockEnds ==
  [][(pc = "old" /\ linecount' = linecount + 1) =>
       LET n == linecount + 1
       IN /\ InBlock(n) =>
               /\ appendix_lines' = appendix_lines + 1
               /\ oldreferences' =
                    parse_oldrefs(MatchOld(source[n], 1), oldreferences)
          /\ BlockEnded(n) =>
               /\ appendix_lines' = appendix_lines
               /\ appendix_start' = appendix_start
               /\ oldreferences' = oldreferences]_vars

\* the duplicate-occurrence notice was printed at most once for each content
NoticeAtMostOnce ==
  \A i, j \in 1..Len(notes) : notes[i] = notes[j] => i = j

\* a recurrence reuses the number the content has, a new content gets the
\* table's size plus one
ReuseOrNext ==
  (InspectEnabled /\ IsReference(NextMatch) /\ pc' = "sub") =>
    LET c == RefKey(NextMatch)
    IN /\ Has(references', c)
       /\ Get(references', c) =
            (IF Has(references, c) THEN Get(references, c)
             ELSE Len(references) + 1)
       /\ ret' = Rendered(Get(references', c), NextMatch)

\* C13: for URL references and for citation references alike, over a whole
\* run the duplicate-occurrence notice is printed at most once per content,
\* however often the content recurs; a recurrence reuses the existing number
\* and a new content is assigned the table's size plus one.
C13_NoticeOnce == []NoticeAtMostOnce /\ [][ReuseOrNext]_vars

====
